---- MODULE Spec2Model ----
(***************************************************************************)
(* The POST /analyze endpoint of healthy-India-backend, in its four        *)
(* revisions:                                                              *)
(*   "A"  src/unnamed/part_000 lines 1-109   (flat verdict schema)         *)
(*   "B"  src/unnamed/part_000 lines 111-277 (FSSAI prompt)                *)
(*   "R1" src/server.js lines 1-183          (Firebase auth + Mongo save)  *)
(*   "R2" src/server.js lines 185-316        (benefit categories)          *)
(* Text is a sequence of one-character strings, so that trimming, fence    *)
(* stripping, the end-anchored regex and JSON.parse are computed on the    *)
(* characters of the reply.                                                *)
(***************************************************************************)
EXTENDS Integers, Sequences, FiniteSets, TLC

VARIABLES rev, req, db, completion

vars == <<rev, req, db, completion>>

(***************************************************************************)
(* Characters and strings                                                  *)
(***************************************************************************)

\* The characters JavaScript's \s and String.prototype.trim treat as blank
\* (the ones that occur in the modelled replies).
WS == {" ", "\n", "\t"}

Digits == {"0", "1", "2", "3", "4", "5", "6", "7", "8", "9"}

DigitVal(c) ==
  CASE c = "0" -> 0 [] c = "1" -> 1 [] c = "2" -> 2 [] c = "3" -> 3
    [] c = "4" -> 4 [] c = "5" -> 5 [] c = "6" -> 6 [] c = "7" -> 7
    [] c = "8" -> 8 [] OTHER -> 9

DigitChar(n) ==
  CASE n = 0 -> "0" [] n = 1 -> "1" [] n = 2 -> "2" [] n = 3 -> "3"
    [] n = 4 -> "4" [] n = 5 -> "5" [] n = 6 -> "6" [] n = 7 -> "7"
    [] n = 8 -> "8" [] OTHER -> "9"

\* The /i flag: letters compare by their lower-case form.
Lower(c) ==
  CASE c = "J" -> "j" [] c = "S" -> "s" [] c = "O" -> "o" [] c = "N" -> "n"
    [] OTHER -> c

Drop(s, n) == SubSeq(s, n + 1, Len(s))

\* Index of the first non-blank character at or after i (Len(s)+1 if none).
RECURSIVE SkipWs(_, _)
SkipWs(s, i) == IF i <= Len(s) /\ s[i] \in WS THEN SkipWs(s, i + 1) ELSE i

\* Index of the last non-blank character at or before i (0 if none).
RECURSIVE SkipWsBack(_, _)
SkipWsBack(s, i) == IF i >= 1 /\ s[i] \in WS THEN SkipWsBack(s, i - 1) ELSE i

\* String.prototype.trim
Trim(s) == SubSeq(s, SkipWs(s, 1), SkipWsBack(s, Len(s)))

\* Whether pat occurs in s at index i; ci is the regex /i flag.
MatchAt(s, i, pat, ci) ==
  /\ i >= 1
  /\ i + Len(pat) - 1 <= Len(s)
  /\ \A k \in 1..Len(pat) :
       IF ci THEN Lower(s[i + k - 1]) = Lower(pat[k]) ELSE s[i + k - 1] = pat[k]

\* The backtick character, written as an apostrophe: a TLA+ string cannot hold
\* a backtick, and no modelled text holds an apostrophe.
BT == "'"

\* The markdown fence marker (three backticks), and the one tagged json.
Fence == <<BT, BT, BT>>

FenceJson == <<BT, BT, BT, "j", "s", "o", "n">>

\* s.replace(/^<pat>\s*/, "") : the marker at the very start, with the blanks
\* after it; s unchanged when the marker is not there.
StripLeading(s, pat, ci) ==
  IF MatchAt(s, 1, pat, ci) THEN Drop(s, SkipWs(s, Len(pat) + 1) - 1) ELSE s

\* StripTrailing with the closing marker left in place.
StripTrailingM(s) == s

\* s.replace(/<fence>$/, "") : without the m flag $ is the very end of the string.
StripTrailing(s) ==
  IF MatchAt(s, Len(s) - 2, Fence, FALSE) THEN SubSeq(s, 1, Len(s) - 3) ELSE s

\* Index of the first "{" at or after i (0 if none).
RECURSIVE FirstBrace(_, _)
FirstBrace(s, i) ==
  IF i > Len(s) THEN 0 ELSE IF s[i] = "{" THEN i ELSE FirstBrace(s, i + 1)

\* s.match(/\{[\s\S]*\}$/) : leftmost "{", then greedily anything, then a "}"
\* that is the last character of s.  hit is FALSE for a null match.
MatchObject(s) ==
  LET b == FirstBrace(s, 1) IN
    IF Len(s) >= 2 /\ s[Len(s)] = "}" /\ b # 0 /\ b < Len(s)
      THEN [hit |-> TRUE, text |-> SubSeq(s, b, Len(s))]
      ELSE [hit |-> FALSE, text |-> <<>>]

(***************************************************************************)
(* JSON values: [t |-> "str", v |-> chars], [t |-> "num", v |-> n],        *)
(* [t |-> "arr", v |-> <<values>>] and [t |-> "obj", v |-> <<members>>]    *)
(* with members [k |-> chars, v |-> value] in insertion order, keys        *)
(* distinct (a JavaScript object).                                         *)
(***************************************************************************)

Str(s) == [t |-> "str", v |-> s]
Num(n) == [t |-> "num", v |-> n]
Arr(a) == [t |-> "arr", v |-> a]
Obj(m) == [t |-> "obj", v |-> m]
Mem(k, v) == [k |-> k, v |-> v]

HasKey(m, k) == \E i \in 1..Len(m) : m[i].k = k

\* The value of key k in member list m (k is a key of m).
Get(m, k) == m[CHOOSE i \in 1..Len(m) : m[i].k = k].v

\* obj[k] = v : a new key is appended, an existing key keeps its place.
Put(m, k, v) ==
  IF HasKey(m, k)
    THEN [i \in 1..Len(m) |-> IF m[i].k = k THEN Mem(k, v) ELSE m[i]]
    ELSE Append(m, Mem(k, v))

\* { ...a, ...b } : b's members written over a's, in b's order.
RECURSIVE Spread(_, _)
Spread(a, b) == IF b = <<>> THEN a ELSE Spread(Put(a, b[1].k, b[1].v), Tail(b))

NoParse == [ok |-> FALSE, val |-> Num(0), next |-> 0]

\* A string literal opening at s[i] = "\"": up to the next quote; a raw line
\* break or tab inside it is a syntax error.
RECURSIVE StringEnd(_, _)
StringEnd(s, i) ==
  IF i > Len(s) \/ s[i] \in {"\n", "\t"} THEN 0
  ELSE IF s[i] = "\"" THEN i ELSE StringEnd(s, i + 1)

ParseString(s, i) ==
  LET e == StringEnd(s, i + 1) IN
    IF e = 0 THEN NoParse
    ELSE [ok |-> TRUE, val |-> Str(SubSeq(s, i + 1, e - 1)), next |-> e + 1]

RECURSIVE NumberEnd(_, _)
NumberEnd(s, i) == IF i <= Len(s) /\ s[i] \in Digits THEN NumberEnd(s, i + 1) ELSE i

RECURSIVE NumberVal(_, _, _)
NumberVal(s, i, e) ==
  IF e < i THEN 0 ELSE 10 * NumberVal(s, i, e - 1) + DigitVal(s[e])

\* An unsigned integer literal; a leading zero before more digits is an error.
ParseNumber(s, i) ==
  LET e == NumberEnd(s, i) IN
    IF e > i + 1 /\ s[i] = "0" THEN NoParse
    ELSE [ok |-> TRUE, val |-> Num(NumberVal(s, i, e - 1)), next |-> e]

RECURSIVE ParseValue(_, _)
RECURSIVE ParseMembers(_, _, _)
RECURSIVE ParseElements(_, _, _)

\* The members of an object from index i (a key is expected there).
ParseMembers(s, i, acc) ==
  IF i > Len(s) \/ s[i] # "\"" THEN NoParse
  ELSE
    LET k == ParseString(s, i) IN
      IF ~k.ok THEN NoParse
      ELSE
        LET c == SkipWs(s, k.next) IN
          IF c > Len(s) \/ s[c] # ":" THEN NoParse
          ELSE
            LET v == ParseValue(s, c + 1) IN
              IF ~v.ok THEN NoParse
              ELSE
                LET d == SkipWs(s, v.next)
                    m == Put(acc, k.val.v, v.val)
                IN
                  IF d > Len(s) THEN NoParse
                  ELSE IF s[d] = "}"
                    THEN [ok |-> TRUE, val |-> Obj(m), next |-> d + 1]
                  ELSE IF s[d] = ","
                    THEN ParseMembers(s, SkipWs(s, d + 1), m)
                  ELSE NoParse

\* The elements of an array from index i (a value is expected there).
ParseElements(s, i, acc) ==
  LET v == ParseValue(s, i) IN
    IF ~v.ok THEN NoParse
    ELSE
      LET d == SkipWs(s, v.next)
          a == Append(acc, v.val)
      IN
        IF d > Len(s) THEN NoParse
        ELSE IF s[d] = "]" THEN [ok |-> TRUE, val |-> Arr(a), next |-> d + 1]
        ELSE IF s[d] = "," THEN ParseElements(s, d + 1, a)
        ELSE NoParse

\* One JSON value starting at or after index i, blanks skipped.  The values
\* are the ones the modelled replies are written in: objects, arrays, strings
\* without escapes and unsigned integers.
ParseValue(s, i) ==
  LET j == SkipWs(s, i) IN
    IF j > Len(s) THEN NoParse
    ELSE IF s[j] = "{" THEN
      LET n == SkipWs(s, j + 1) IN
        IF n <= Len(s) /\ s[n] = "}"
          THEN [ok |-> TRUE, val |-> Obj(<<>>), next |-> n + 1]
          ELSE ParseMembers(s, n, <<>>)
    ELSE IF s[j] = "[" THEN
      LET n == SkipWs(s, j + 1) IN
        IF n <= Len(s) /\ s[n] = "]"
          THEN [ok |-> TRUE, val |-> Arr(<<>>), next |-> n + 1]
          ELSE ParseElements(s, n, <<>>)
    ELSE IF s[j] = "\"" THEN ParseString(s, j)
    ELSE IF s[j] \in Digits THEN ParseNumber(s, j)
    ELSE NoParse

\* JSON.parse(text): ok is FALSE where JSON.parse throws a SyntaxError.
JSONparse(s) ==
  LET r == ParseValue(s, 1) IN
    IF r.ok /\ SkipWs(s, r.next) > Len(s)
      THEN [ok |-> TRUE, val |-> r.val]
      ELSE [ok |-> FALSE, val |-> Num(0)]

RECURSIVE NumText(_)
NumText(n) == IF n < 10 THEN <<DigitChar(n)>> ELSE NumText(n \div 10) \o <<DigitChar(n % 10)>>

RECURSIVE Stringify(_, _)
RECURSIVE MembersText(_, _)
RECURSIVE ElementsText(_, _)

MembersText(m, sp) ==
  IF m = <<>> THEN <<>>
  ELSE sp \o <<"\"">> \o m[1].k \o <<"\"", ":">> \o sp \o Stringify(m[1].v, sp)
       \o (IF Len(m) > 1 THEN <<",">> ELSE sp) \o MembersText(Tail(m), sp)

ElementsText(a, sp) ==
  IF a = <<>> THEN <<>>
  ELSE sp \o Stringify(a[1], sp)
       \o (IF Len(a) > 1 THEN <<",">> ELSE sp) \o ElementsText(Tail(a), sp)

\* The JSON text of a value: JSON.stringify(v) for sp = <<>>, and the same
\* text with the blanks sp between its tokens otherwise.
Stringify(v, sp) ==
  CASE v.t = "str" -> <<"\"">> \o v.v \o <<"\"">>
    [] v.t = "num" -> NumText(v.v)
    [] v.t = "arr" -> <<"[">> \o ElementsText(v.v, sp) \o <<"]">>
    [] OTHER -> <<"{">> \o MembersText(v.v, sp) \o <<"}">>

(***************************************************************************)
(* The server: deployed revision, requests in flight, the Mongo collection *)
(***************************************************************************)

\* How many requests the model follows at once.
NReq == 2

\* The values Date.now() may return at the moment a record is built.
MaxTime == 2

Requests == 1..NReq

Revisions == {"A", "B", "R1", "R2"}

\* authenticate is mounted on the route in src/server.js line 68 only.
HasAuth(rv) == rv = "R1"

\* doc.save() is called in src/server.js line 172 only.
HasStore(rv) == rv = "R1"

\* JavaScript's undefined, and NaN.
Undef == [t |-> "undef", v |-> <<>>]
NaN == [t |-> "nan", v |-> <<>>]

\* Index of the first occurrence of pat in s at or after i (0 if none).
RECURSIVE IndexOf(_, _, _)
IndexOf(s, pat, i) ==
  IF i + Len(pat) - 1 > Len(s) THEN 0
  ELSE IF MatchAt(s, i, pat, FALSE) THEN i ELSE IndexOf(s, pat, i + 1)

BearerSep == <<"B","e","a","r","e","r"," ">>

\* req.headers.authorization?.split("Bearer ")[1] : undefined without a
\* header or without the separator, else the text between its first and its
\* second occurrence (or the end).
BearerToken(h) ==
  IF h = Undef THEN Undef
  ELSE
    LET a == IndexOf(h.v, BearerSep, 1) IN
      IF a = 0 THEN Undef
      ELSE
        LET st == a + Len(BearerSep)
            b == IndexOf(h.v, BearerSep, st)
        IN Str(SubSeq(h.v, st, IF b = 0 THEN Len(h.v) ELSE b - 1))

\* !idToken
NoToken(tok) == tok = Undef \/ tok = Str(<<>>)

\* The ID tokens the identity provider has issued, with their claims.
IssuedTokens == {<<"t","1">>, <<"t","2">>}

Decoded(tok) ==
  IF tok = <<"t","1">>
    THEN [uid |-> Str(<<"u","1">>), phone_number |-> Str(<<"+","9","1">>)]
    ELSE [uid |-> Str(<<"u","2">>), phone_number |-> Str(<<"+","9","2">>)]

\* Verifies with every token accepted.
VerifiesM(tok) == TRUE

\* admin.auth().verifyIdToken(idToken) resolves for an issued token and
\* rejects for anything else.
Verifies(tok) == tok.v \in IssuedTokens

\* MissingFile with the check dropped.
MissingFileM(q) == FALSE

\* !req.file
MissingFile(q) == ~q.file

\* parseFloat(x): NaN for a missing field or one that does not start with a
\* digit (after blanks), else the number its leading digits spell; the form
\* fields of the modelled requests are whole numbers.
ParseFloat(x) ==
  IF x = Undef THEN NaN
  ELSE
    LET i == SkipWs(x.v, 1)
        e == NumberEnd(x.v, i)
    IN IF e = i THEN NaN ELSE Num(NumberVal(x.v, i, e - 1))

\* The fence stripping of each revision, in the order the code applies it.
StripFences(rv, raw) ==
  IF rv \in {"A", "B"}
    THEN Trim(StripTrailing(StripLeading(StripLeading(Trim(raw), FenceJson, FALSE),
                                         Fence, FALSE)))
    ELSE Trim(StripTrailing(StripLeading(raw, FenceJson, rv = "R1")))

\* The sanitizer: strip, match, parse.  kind is "nomatch" for a null match,
\* "syntax" where JSON.parse throws, "ok" with the parsed value otherwise.
Sanitize(rv, raw) ==
  LET m == MatchObject(StripFences(rv, raw)) IN
    IF ~m.hit THEN [kind |-> "nomatch", val |-> Undef]
    ELSE
      LET p == JSONparse(m.text) IN
        IF p.ok THEN [kind |-> "ok", val |-> p.val]
        ELSE [kind |-> "syntax", val |-> Undef]

KeyError == <<"e","r","r","o","r">>
KeyUid == <<"u","i","d">>
KeyPhone == <<"p","h","o","n","e">>
KeyImageUrl == <<"i","m","a","g","e","U","r","l">>
KeyLocation == <<"l","o","c","a","t","i","o","n">>
KeyLatitude == <<"l","a","t","i","t","u","d","e">>
KeyLongitude == <<"l","o","n","g","i","t","u","d","e">>
KeyIngredients == <<"i","n","g","r","e","d","i","e","n","t","s","_","a","n","a","l","y","z","e","d">>
KeyLabels == <<"p","r","o","d","u","c","t","_","l","a","b","e","l","s">>
KeyAlerts == <<"t","o","t","a","l","_","a","l","e","r","t","s">>
KeyAlternatives == <<"s","u","g","g","e","s","t","e","d","_","a","l","t","e","r","n","a","t","i","v","e","s">>
KeyCreatedAt == <<"c","r","e","a","t","e","d","A","t">>

\* The paths of AnalysisResultSchema; a strict schema keeps no other key.
SchemaPaths ==
  {KeyUid, KeyPhone, KeyImageUrl, KeyLocation, KeyIngredients, KeyLabels,
   KeyAlerts, KeyAlternatives, KeyCreatedAt}

ResultPaths == {KeyIngredients, KeyLabels, KeyAlerts, KeyAlternatives}

RECURSIVE KeepPaths(_)
KeepPaths(m) ==
  IF m = <<>> THEN <<>>
  ELSE IF m[1].k \in SchemaPaths THEN <<m[1]>> \o KeepPaths(Tail(m))
  ELSE KeepPaths(Tail(m))

\* The template literal uploaded_images/${Date.now()}.jpg
ImageUrl(ts) == Str(<<"u","p","l","o","a","d","e","d","_","i","m","a","g","e","s","/">> \o NumText(ts) \o <<".","j","p","g">>)

\* loc of src/server.js lines 161-164
Location(q) ==
  Obj(<<Mem(KeyLatitude, ParseFloat(q.form.latitude)),
        Mem(KeyLongitude, ParseFloat(q.form.longitude))>>)

\* The caller's fields of the record, before the reply is spread in.
Identity(q, ts) ==
  <<Mem(KeyUid, q.uid), Mem(KeyPhone, q.phone), Mem(KeyImageUrl, ImageUrl(ts)),
    Mem(KeyLocation, Location(q))>>

\* new AnalysisResult({ uid, phone, imageUrl, location, ...json })
NewAnalysisResult(q, ts, json) == Obj(KeepPaths(Spread(Identity(q, ts), json.v)))

ErrorBody(msg) == Obj(<<Mem(KeyError, Str(msg))>>)

MsgNoToken == <<"N","o"," ","t","o","k","e","n">>
MsgInvalidToken == <<"I","n","v","a","l","i","d"," ","t","o","k","e","n">>
MsgNoImage == <<"N","o"," ","i","m","a","g","e">>
MsgNoImageFile == <<"N","o"," ","i","m","a","g","e"," ","f","i","l","e"," ","p","r","o","v","i","d","e","d",".">>
MsgMissingJsonA == <<"I","n","v","a","l","i","d"," ","o","r"," ","m","i","s","s","i","n","g"," ","J","S","O","N"," ","i","n"," ","D","e","e","p","S","e","e","k"," ","r","e","s","p","o","n","s","e",".">>
MsgMissingJsonB == <<"I","n","v","a","l","i","d"," ","J","S","O","N"," ","i","n"," ","D","e","e","p","S","e","e","k"," ","r","e","s","p","o","n","s","e",".">>
MsgMissingJson2 == <<"I","n","v","a","l","i","d"," ","J","S","O","N"," ","i","n"," ","L","L","M"," ","r","e","s","p","o","n","s","e",".">>
MsgParseA == <<"F","a","i","l","e","d"," ","t","o"," ","p","a","r","s","e"," ","D","e","e","p","S","e","e","k"," ","J","S","O","N"," ","r","e","s","p","o","n","s","e",".">>
MsgParseB == <<"F","a","i","l","e","d"," ","t","o"," ","p","a","r","s","e"," ","J","S","O","N"," ","f","r","o","m"," ","D","e","e","p","S","e","e","k",".">>
MsgServer == <<"S","e","r","v","e","r"," ","e","r","r","o","r"," ","d","u","r","i","n","g"," ","a","n","a","l","y","s","i","s",".">>

\* The message property of the errors thrown inside the handler.
ErrOcr == <<"O","C","R"," ","f","a","i","l","e","d">>
ErrChat == <<"R","e","q","u","e","s","t"," ","f","a","i","l","e","d">>
ErrNull == <<"C","a","n","n","o","t"," ","r","e","a","d"," ","p","r","o","p","e","r","t","i","e","s"," ","o","f"," ","n","u","l","l">>
ErrSyntax == <<"U","n","e","x","p","e","c","t","e","d"," ","t","o","k","e","n"," ","i","n"," ","J","S","O","N">>
ErrSave == <<"A","n","a","l","y","s","i","s","R","e","s","u","l","t"," ","v","a","l","i","d","a","t","i","o","n"," ","f","a","i","l","e","d">>

\* res.status(s).json(b): the response is written and the request is over.
Respond(q, status, body) ==
  [q EXCEPT !.pc = "done",
            !.resp = Append(@, [status |-> status, body |-> body]),
            !.trace = Append(@, "respond")]

\* Thrown with no catch clause: the rejection escapes the handler.
ThrownM(rv, q, msg) == [q EXCEPT !.pc = "crashed"]

\* Thrown with a catch clause that starts the pipeline again.
ThrownRetry(rv, q, msg) == [q EXCEPT !.pc = "ocr", !.trace = Append(@, "ocr")]

\* An error thrown inside the handler's try block: the catch clause answers
\* 500, with err.message in R1 and a fixed text in the other revisions.
Thrown(rv, q, msg) ==
  Respond(q, 500, ErrorBody(IF rv = "R1" THEN msg ELSE MsgServer))

Idle ==
  [pc |-> "idle", hdr |-> Undef, file |-> FALSE,
   form |-> [latitude |-> Undef, longitude |-> Undef],
   uid |-> Undef, phone |-> Undef, raw |-> Undef, json |-> Undef, ts |-> 0,
   resp |-> <<>>, trace |-> <<>>]

\* A POST /analyze request arrives with its Authorization header (or none),
\* its multipart body with or without the image part, and its form fields.
Arrive(r, h, f, fm) ==
  /\ req[r].pc = "idle"
  /\ req' = [req EXCEPT ![r] =
       [@ EXCEPT !.pc = IF HasAuth(rev) THEN "auth" ELSE "upload",
                 !.hdr = h, !.file = f, !.form = fm]]
  /\ UNCHANGED <<rev, db, completion>>

\* authenticate, up to its await: 401 without a token, else verifyIdToken is
\* called.
Authenticate(r) ==
  /\ req[r].pc = "auth"
  /\ req' = [req EXCEPT ![r] =
       IF NoToken(BearerToken(@.hdr))
         THEN Respond(@, 401, ErrorBody(MsgNoToken))
         ELSE [@ EXCEPT !.pc = "verify", !.trace = Append(@, "verify")]]
  /\ UNCHANGED <<rev, db, completion>>

\* authenticate, after its await: uid and phone are attached and next() is
\* called, or the catch clause answers 401.
VerifyReturn(r) ==
  /\ req[r].pc = "verify"
  /\ req' = [req EXCEPT ![r] =
       LET tok == BearerToken(@.hdr) IN
         IF Verifies(tok)
           THEN [@ EXCEPT !.pc = "upload",
                          !.uid = Decoded(tok.v).uid,
                          !.phone = Decoded(tok.v).phone_number]
           ELSE Respond(@, 401, ErrorBody(MsgInvalidToken))]
  /\ UNCHANGED <<rev, db, completion>>

\* upload.single("image") has parsed the body and the handler runs up to its
\* first await: 400 without a file, else tesseract.recognize is called.
Analyze(r) ==
  /\ req[r].pc = "upload"
  /\ req' = [req EXCEPT ![r] =
       LET q == [@ EXCEPT !.trace = Append(@, "upload")] IN
         IF MissingFile(q)
           THEN Respond(q, 400,
                  ErrorBody(IF rev = "R1" THEN MsgNoImage ELSE MsgNoImageFile))
           ELSE [q EXCEPT !.pc = "ocr", !.trace = Append(@, "ocr")]]
  /\ UNCHANGED <<rev, db, completion>>

\* tesseract.recognize resolves: the prompt is built and
\* openai.chat.completions.create is called.
OcrReturn(r) ==
  /\ req[r].pc = "ocr"
  /\ req' = [req EXCEPT ![r] =
       [@ EXCEPT !.pc = "chat", !.trace = @ \o <<"ocr_ok", "chat">>]]
  /\ UNCHANGED <<rev, db, completion>>

\* tesseract.recognize rejects.
OcrFail(r) ==
  /\ req[r].pc = "ocr"
  /\ req' = [req EXCEPT ![r] = Thrown(rev, @, ErrOcr)]
  /\ UNCHANGED <<rev, db, completion>>

\* The completion call rejects, or its result has no choices[0].message.
ChatFail(r) ==
  /\ req[r].pc = "chat"
  /\ req' = [req EXCEPT ![r] = Thrown(rev, @, ErrChat)]
  /\ UNCHANGED <<rev, db, completion>>

\* What the handler does with the reply, up to its next await or response.
\* ts is Date.now() at line 168.
OnReply(rv, q0, reply, ts) ==
  LET q == [q0 EXCEPT !.raw = Str(reply)]
      s == Sanitize(rv, reply)
  IN
    IF s.kind = "nomatch" THEN
      CASE rv = "A" -> Respond(q, 400, ErrorBody(MsgMissingJsonA))
        [] rv = "B" -> Respond(q, 400, ErrorBody(MsgMissingJsonB))
        [] rv = "R2" -> Respond(q, 400, ErrorBody(MsgMissingJson2))
        [] OTHER -> Thrown(rv, q, ErrNull)
    ELSE IF s.kind = "syntax" THEN
      CASE rv = "A" -> Respond(q, 500, ErrorBody(MsgParseA))
        [] rv = "B" -> Respond(q, 500, ErrorBody(MsgParseB))
        [] OTHER -> Thrown(rv, q, ErrSyntax)
    ELSE
      LET p == [q EXCEPT !.json = s.val, !.trace = Append(@, "parsed")] IN
        IF HasStore(rv)
          THEN [p EXCEPT !.pc = "save", !.ts = ts, !.trace = Append(@, "save")]
          ELSE Respond(p, 200, s.val)

\* The text of a reply: what precedes the body, the body, what follows it.
Text(sh) == sh.pre \o sh.body.text \o sh.post

\* The completion call resolves with the reply text.
ChatReturn(r, sh, ts) ==
  /\ req[r].pc = "chat"
  /\ req' = [req EXCEPT ![r] = OnReply(rev, @, Text(sh), ts)]
  /\ completion' = [completion EXCEPT ![r] = sh]
  /\ UNCHANGED <<rev, db>>

\* SavedRecord with the reply left out of the document.
SavedRecordM(q, r) == [by |-> r, doc |-> NewAnalysisResult(q, q.ts, Obj(<<>>))]

\* The record doc.save() inserts; by names the request, for the properties.
SavedRecord(q, r) == [by |-> r, doc |-> NewAnalysisResult(q, q.ts, q.json)]

\* doc.save(): the document is inserted; the awaiting handler has not resumed.
SaveCommit(r) ==
  /\ req[r].pc = "save"
  /\ db' = Append(db, SavedRecord(req[r], r))
  /\ req' = [req EXCEPT ![r] = [@ EXCEPT !.pc = "saved"]]
  /\ UNCHANGED <<rev, completion>>

\* doc.save() resolved: res.json(json).
SaveReturn(r) ==
  /\ req[r].pc = "saved"
  /\ req' = [req EXCEPT ![r] = Respond(@, 200, @.json)]
  /\ UNCHANGED <<rev, db, completion>>

\* doc.save() rejects (validation or the write itself): nothing is inserted.
SaveFail(r) ==
  /\ req[r].pc = "save"
  /\ req' = [req EXCEPT ![r] = Thrown(rev, @, ErrSave)]
  /\ UNCHANGED <<rev, db, completion>>

(***************************************************************************)
(* The inputs the model draws                                              *)
(***************************************************************************)

\* The largest number of members of a generated reply object.
MaxMembers == 2

NoForm == [latitude |-> Undef, longitude |-> Undef]

GeoForm == [latitude |-> Str(<<"1","2">>), longitude |-> Str(<<" ","7","7">>)]

\* An upload with an issued token, the image and the coordinates.
GoodArrival == [hdr |-> Str(<<"B","e","a","r","e","r"," ","t","1">>), file |-> TRUE, form |-> GeoForm]

\* The requests that arrive: Authorization header, image part, form fields.
Arrivals ==
  {GoodArrival,
   [hdr |-> Str(<<"B","e","a","r","e","r"," ","t","2">>), file |-> FALSE, form |-> NoForm],
   [hdr |-> Str(<<"B","e","a","r","e","r"," ","z","z">>), file |-> TRUE, form |-> NoForm],
   [hdr |-> Str(<<"B","e","a","r","e","r"," ">>), file |-> FALSE, form |-> GeoForm],
   [hdr |-> Str(<<"B","a","s","i","c"," ","t","1">>), file |-> FALSE, form |-> GeoForm],
   [hdr |-> Undef, file |-> TRUE, form |-> NoForm]}

Times == 1..MaxTime

ReplyKeys == {<<"a">>, KeyAlerts, KeyUid}

ReplyVals ==
  {Num(3), Str(<<"}", BT, BT, BT>>), Arr(<<Obj(<<Mem(<<"b">>, Str(<<"{">>))>>)>>)}

RECURSIVE MemberLists(_)
MemberLists(n) ==
  IF n = 0 THEN {<<>>}
  ELSE LET less == MemberLists(n - 1) IN
    less \cup {Append(m, Mem(k, v)) :
                 m \in {x \in less : Len(x) = n - 1},
                 k \in ReplyKeys, v \in ReplyVals}

\* The reply objects: up to MaxMembers members with distinct keys.
Objects ==
  {Obj(m) : m \in {x \in MemberLists(MaxMembers) :
                     \A i, j \in 1..Len(x) : i # j => x[i].k # x[j].k}}

\* Compact text, and text with a line break between the tokens.
Spacings == {<<>>, <<"\n">>}

\* A reply body: the text of an object (obj says which), or other text.
ObjectBodies ==
  {[isObj |-> TRUE, obj |-> o, text |-> Stringify(o, sp)] :
     o \in Objects, sp \in Spacings}

OtherTexts ==
  {<<>>, <<"S","o","r","r","y",","," ","I"," ","c","a","n","n","o","t"," ","r","e","a","d"," ","i","t",".">>, <<"{","x","}">>, <<"{","\"","a","\"",":","}">>, <<"{","\"","a","\"",":","3">>,
   <<"H","e","r","e",":"," ","{","\"","a","\"",":","3","}">>, <<"{","\"","a","\"",":","3","}"," ","H","o","p","e"," ","i","t"," ","h","e","l","p","s">>, <<"{","x","}"," ","{","\"","a","\"",":","3","}">>, <<"}","{">>,
   <<"{","\"","a","\"",":","0","3","}">>}

OtherBodies == {[isObj |-> FALSE, obj |-> Undef, text |-> t] : t \in OtherTexts}

\* What may precede and follow the body in a reply.
Openers ==
  {<<>>, FenceJson \o <<"\n">>, <<" ">> \o FenceJson \o <<"\n">>,
   Fence \o <<"\n">>, <<BT, BT, BT, "J", "S", "O", "N", "\n">>}

Closers == {<<>>, <<"\n">> \o Fence, <<"\n">> \o Fence \o <<"\n">>, <<"\n">>}

Shapes(bodies) ==
  {[pre |-> a, body |-> b, post |-> c] : a \in Openers, b \in bodies, c \in Closers}

AllShapes == Shapes(ObjectBodies \cup OtherBodies)

LabelsReply ==
  Obj(<<Mem(KeyLabels, Arr(<<Str(<<"U","n","h","e","a","l","t","h","y">>)>>)), Mem(KeyAlerts, Num(3))>>)

ForgedReply == Obj(<<Mem(KeyUid, Str(<<"r","o","o","t">>)), Mem(KeyAlerts, Num(1))>>)

\* The replies followed through concurrent requests: a fenced object, a bare
\* object that names uid, prose, and a block that does not parse.
CoreShapes ==
  {[pre |-> FenceJson \o <<"\n">>,
    body |-> [isObj |-> TRUE, obj |-> LabelsReply, text |-> Stringify(LabelsReply, <<>>)],
    post |-> <<"\n">> \o Fence],
   [pre |-> <<>>,
    body |-> [isObj |-> TRUE, obj |-> ForgedReply, text |-> Stringify(ForgedReply, <<"\n">>)],
    post |-> <<>>],
   [pre |-> <<>>,
    body |-> [isObj |-> FALSE, obj |-> Undef, text |-> <<"S","o","r","r","y",","," ","I"," ","c","a","n","n","o","t"," ","r","e","a","d"," ","i","t",".">>],
    post |-> <<>>],
   [pre |-> <<>>,
    body |-> [isObj |-> FALSE, obj |-> Undef, text |-> <<"{","x","}">>],
    post |-> <<>>]}

NoShape == [pre |-> <<>>, body |-> [isObj |-> FALSE, obj |-> Undef, text |-> <<>>], post |-> <<>>]

Init ==
  /\ rev \in Revisions
  /\ req = [r \in Requests |-> Idle]
  /\ db = <<>>
  /\ completion = [r \in Requests |-> NoShape]

\* Any number of requests, each at its own step.
Next ==
  \E r \in Requests :
    \/ req[r].pc = "idle" /\ \E a \in Arrivals : Arrive(r, a.hdr, a.file, a.form)
    \/ Authenticate(r)
    \/ VerifyReturn(r)
    \/ Analyze(r)
    \/ OcrReturn(r)
    \/ OcrFail(r)
    \/ req[r].pc = "chat" /\ \E sh \in CoreShapes, ts \in Times : ChatReturn(r, sh, ts)
    \/ ChatFail(r)
    \/ SaveCommit(r)
    \/ SaveReturn(r)
    \/ SaveFail(r)

Spec == Init /\ [][Next]_vars

\* One authenticated upload, answered with every reply shape.
SanNext ==
  \/ Arrive(1, GoodArrival.hdr, GoodArrival.file, GoodArrival.form)
  \/ Authenticate(1)
  \/ VerifyReturn(1)
  \/ Analyze(1)
  \/ OcrReturn(1)
  \/ req[1].pc = "chat" /\ \E sh \in AllShapes, ts \in Times : ChatReturn(1, sh, ts)
  \/ SaveCommit(1)
  \/ SaveReturn(1)
  \/ SaveFail(1)

SanSpec == Init /\ [][SanNext]_vars

(***************************************************************************)
(* Properties                                                              *)
(***************************************************************************)

Done(r) == req[r].pc = "done"

\* The handler has received the completion reply of request r.
Replied(r) == req[r].raw # Undef

Count(tr, ev) == Cardinality({i \in 1..Len(tr) : tr[i] = ev})

Made(r, ev) == Count(req[r].trace, ev) >= 1

Pos(r, ev) == CHOOSE i \in 1..Len(req[r].trace) : req[r].trace[i] = ev

StatusIs(r, s) == Len(req[r].resp) = 1 /\ req[r].resp[1].status = s

\* A JSON object with an error string.
IsErrorBody(b) == b.t = "obj" /\ HasKey(b.v, KeyError) /\ Get(b.v, KeyError).t = "str"

StoredBy(r) == {i \in 1..Len(db) : db[i].by = r}

\* No OCR call, completion call or database write was made for request r.
NoPipelineCall(r) ==
  /\ ~Made(r, "ocr") /\ ~Made(r, "chat") /\ ~Made(r, "save")
  /\ StoredBy(r) = {}

\* C1, as stated: every request without a file in the image field is answered
\* 400 with an error body, in every revision, and no OCR call, completion call
\* or database write is made for it.
C1_NoFileAlways400 ==
  \A r \in Requests :
    (req[r].pc # "idle" /\ ~req[r].file) =>
      /\ NoPipelineCall(r)
      /\ Done(r) => StatusIs(r, 400) /\ IsErrorBody(req[r].resp[1].body)

\* C1, amended: a request without a file never causes an OCR call, a
\* completion call or a database write; once it has reached the handler (in
\* the revision with authentication: once its token verified) it is answered
\* 400 with an error body, and when authentication rejects it first it is
\* answered 401.
C1_NoFile400 ==
  \A r \in Requests :
    (req[r].pc # "idle" /\ ~req[r].file) =>
      /\ NoPipelineCall(r)
      /\ Done(r) =>
           /\ IsErrorBody(req[r].resp[1].body)
           /\ IF Made(r, "upload") THEN StatusIs(r, 400) ELSE StatusIs(r, 401)
           /\ ~Made(r, "upload") => HasAuth(rev)

C1_Witness ==
  \E r \in Requests :
    /\ rev = "R1" /\ Done(r) /\ ~req[r].file /\ Made(r, "upload")
    /\ StatusIs(r, 400)

\* The reply of request r is the text of an object in a json fence, or the
\* bare text of an object.
Fenced(sh) == sh.pre = FenceJson \o <<"\n">> /\ sh.post = <<"\n">> \o Fence
Bare(sh) == sh.pre = <<>> /\ sh.post = <<>>

\* C2: the text of an object, fenced with the json marker or bare, is
\* sanitized to exactly that object, and the request ends with 200 and that
\* object as its body (in the revision that stores the result: once the write
\* succeeded; a failed write ends it with 500).
C2_RoundTrip ==
  \A r \in Requests :
    LET sh == completion[r] IN
      (Replied(r) /\ sh.body.isObj /\ (Fenced(sh) \/ Bare(sh))) =>
        /\ req[r].json = sh.body.obj
        /\ Done(r) =>
             IF HasStore(rev) /\ StoredBy(r) = {}
               THEN StatusIs(r, 500)
               ELSE StatusIs(r, 200) /\ req[r].resp[1].body = sh.body.obj

C2_Witness ==
  \E r \in Requests :
    /\ rev = "R2" /\ Done(r) /\ Fenced(completion[r])
    /\ completion[r].body.isObj /\ Len(completion[r].body.obj.v) = 2
    /\ StatusIs(r, 200) /\ req[r].resp[1].body = completion[r].body.obj

\* The fence-stripped reply of request r ends in no {...} block.
NoBlock(r) == ~MatchObject(StripFences(rev, req[r].raw.v)).hit

\* It ends in a {...} block that is not valid JSON.
BadBlock(r) ==
  LET m == MatchObject(StripFences(rev, req[r].raw.v)) IN m.hit /\ ~JSONparse(m.text).ok

\* C3: a reply with no {...} block ends the request with 400 and an error
\* body, in every revision.
C3_NoBlock400 ==
  \A r \in Requests :
    (Done(r) /\ Replied(r) /\ NoBlock(r)) =>
      StatusIs(r, 400) /\ IsErrorBody(req[r].resp[1].body)

\* C4: a reply whose {...} block is not valid JSON ends the request with 500,
\* a status a reply with no block never gets.
C4_BadBlock500 ==
  \A r \in Requests :
    (Done(r) /\ Replied(r)) =>
      /\ BadBlock(r) => StatusIs(r, 500)
      /\ NoBlock(r) => ~StatusIs(r, 500)

\* The Authorization header is missing, does not start a bearer token, or
\* carries a token the identity provider did not issue.
BadAuth(h) ==
  \/ h = Undef
  \/ ~MatchAt(h.v, 1, BearerSep, FALSE)
  \/ Drop(h.v, Len(BearerSep)) \notin IssuedTokens

\* C5: where authenticate is mounted, a request with a missing or unverified
\* token is answered 401 with an error body and nothing else runs for it; the
\* upload step runs only for a verified token, with its uid and phone
\* attached.
C5_AuthGate ==
  HasAuth(rev) =>
    \A r \in Requests :
      /\ (req[r].pc # "idle" /\ BadAuth(req[r].hdr)) =>
           /\ ~Made(r, "upload") /\ NoPipelineCall(r)
           /\ req[r].uid = Undef /\ req[r].phone = Undef
           /\ Done(r) => StatusIs(r, 401) /\ IsErrorBody(req[r].resp[1].body)
      /\ Made(r, "upload") =>
           /\ ~BadAuth(req[r].hdr)
           /\ Made(r, "verify") /\ Pos(r, "verify") < Pos(r, "upload")
           /\ req[r].uid = Decoded(Drop(req[r].hdr.v, Len(BearerSep))).uid
           /\ req[r].phone = Decoded(Drop(req[r].hdr.v, Len(BearerSep))).phone_number

C5_Witness ==
  \E r, p \in Requests :
    /\ rev = "R1"
    /\ Done(r) /\ req[r].hdr # Undef /\ BadAuth(req[r].hdr) /\ StatusIs(r, 401)
    /\ Made(p, "upload") /\ req[p].uid # Undef

\* The record's result fields are those of the parsed reply.
SameResultFields(doc, json) ==
  \A k \in ResultPaths :
    /\ HasKey(doc.v, k) <=> HasKey(json.v, k)
    /\ HasKey(json.v, k) => Get(doc.v, k) = Get(json.v, k)

C6_State ==
  HasStore(rev) =>
    /\ \A r \in Requests :
         /\ Cardinality(StoredBy(r)) =
              (IF req[r].pc = "saved" \/ StatusIs(r, 200) THEN 1 ELSE 0)
         /\ StatusIs(r, 200) =>
              /\ req[r].json = Sanitize(rev, req[r].raw.v).val
              /\ req[r].resp[1].body = req[r].json
    /\ Len(db) = Cardinality({r \in Requests : req[r].pc = "saved" \/ StatusIs(r, 200)})
    /\ \A i \in 1..Len(db) : SameResultFields(db[i].doc, req[db[i].by].json)

C6_Step == Len(db') >= Len(db) /\ SubSeq(db', 1, Len(db)) = db

C8_BlanksIgnored ==
  \A r \in Requests :
    Replied(r) =>
      LET s == Sanitize(rev, Trim(req[r].raw.v)) IN
        IF s.kind = "ok" THEN req[r].json = s.val ELSE req[r].json = Undef

\* C9: each external call is made at most once per request and in order: OCR
\* after the file check passed, the completion call after OCR returned, the
\* write after the reply parsed, the 200 after all of them; the response is
\* the last step of the request.
C9_LinearOrder ==
  \A r \in Requests :
    /\ \A ev \in {"verify", "upload", "ocr", "ocr_ok", "chat", "parsed", "save", "respond"} :
         Count(req[r].trace, ev) <= 1
    /\ Made(r, "ocr") => req[r].file /\ Made(r, "upload") /\ Pos(r, "upload") < Pos(r, "ocr")
    /\ Made(r, "chat") => Made(r, "ocr_ok") /\ Pos(r, "ocr") < Pos(r, "ocr_ok")
                          /\ Pos(r, "ocr_ok") < Pos(r, "chat")
    /\ Made(r, "parsed") => Made(r, "chat") /\ Pos(r, "chat") < Pos(r, "parsed")
    /\ Made(r, "save") => Made(r, "parsed") /\ Pos(r, "parsed") < Pos(r, "save")
    /\ Cardinality(StoredBy(r)) <= 1
    /\ StoredBy(r) # {} => Made(r, "save")
    /\ Made(r, "respond") <=> Done(r)
    /\ Done(r) => req[r].trace[Len(req[r].trace)] = "respond"
    /\ StatusIs(r, 200) =>
         /\ Made(r, "parsed")
         /\ HasStore(rev) => Made(r, "save") /\ StoredBy(r) # {}

C9_Witness ==
  \E r, p \in Requests :
    /\ rev = "R1" /\ StatusIs(r, 200)
    /\ StatusIs(p, 500) /\ Made(p, "ocr") /\ ~Made(p, "chat")

\* C10: the uid, phone, imageUrl and location of every stored record are the
\* ones of the verified token, the clock and the form fields of its request.
C10_IdentityKept ==
  \A i \in 1..Len(db) :
    LET q == req[db[i].by]
        d == db[i].doc.v
    IN /\ Get(d, KeyUid) = q.uid
       /\ Get(d, KeyPhone) = q.phone
       /\ Get(d, KeyImageUrl) = ImageUrl(q.ts)
       /\ Get(d, KeyLocation) = Location(q)

====
